---- MODULE Spec2Model ----
(***************************************************************************)
(* State-machine model of gridfinity/__init__.py: construction of a        *)
(* GridfinityDimension and of a Properties value, Properties.__str__, and  *)
(* the geometry steps of make_gridfinity_box (drawBases, drawBuckets,      *)
(* drawScrewHoles, drawFingerScoops, drawLabelLedge, drawMate).            *)
(*                                                                         *)
(* Millimetre values are Python floats in the source.  They are modelled   *)
(* as exact rationals <<numerator, denominator>> in lowest terms, so the   *)
(* arithmetic of the source is followed expression by expression without   *)
(* rounding error.                                                         *)
(***************************************************************************)
EXTENDS Integers, Sequences, FiniteSets, TLC

VARIABLES
    pc,             \* position of the program
    dim_args,       \* arguments of the GridfinityDimension(...) call
    dimension,      \* the constructed GridfinityDimension
    prop_args,      \* arguments of the Properties(...) call
    prop,           \* the constructed Properties
    error,          \* the exception raised, "" when none
    name,           \* result of Properties.__str__, "" before the call
    ops,            \* geometry operations performed on the workplane, in order
    sketches,       \* bucket sketches placed by draw_buckets, in order
    warnings,       \* warnings.warn calls, in order
    magnet_holes,   \* holes cut by draw_magnet_holes
    screw_holes,    \* counterbores cut by draw_screw_holes
    scoops,         \* sketches placed by draw_finger_scoops
    ledges          \* sketches placed by draw_label_ledge

vars == <<pc, dim_args, dimension, prop_args, prop, error, name, ops, sketches,
          warnings, magnet_holes, screw_holes, scoops, ledges>>

----------------------------------------------------------------------------
(* Bounds of the model *)

MaxX == 2
MaxY == 2
MaxZ == 2
TallZ == 18
MaxCols == 2

\* heights tried, in units: 1..MaxZ and one tall bin
ZUnits == (1..MaxZ) \cup {TallZ}

\* wall thicknesses tried: 0.5, 0.8 and 4.0 (below and above the 3.75 mm radius)
WallThicknesses == {<<1, 2>>, <<4, 5>>, <<4, 1>>}

\* weighted rows tried, beside the integer rows 1..MaxCols
WeightLists == {<<2, 1>>, <<3, 5>>, <<3, 4>>}

----------------------------------------------------------------------------
(* Exact arithmetic standing for the float arithmetic of the source *)

Abs(i) == IF i < 0 THEN -i ELSE i

RECURSIVE GCD(_, _)
GCD(a, b) == IF b = 0 THEN a ELSE GCD(b, a % b)

\* n/d in lowest terms with a positive denominator (d # 0)
Rat(n, d) ==
    LET g == GCD(Abs(n), Abs(d))
        s == IF d < 0 THEN -1 ELSE 1
    IN  <<(s * n) \div g, (s * d) \div g>>

FromInt(i) == <<i, 1>>
RAdd(a, b) == Rat(a[1] * b[2] + b[1] * a[2], a[2] * b[2])
RSub(a, b) == Rat(a[1] * b[2] - b[1] * a[2], a[2] * b[2])
RMul(a, b) == Rat(a[1] * b[1], a[2] * b[2])
RDiv(a, b) == Rat(a[1] * b[2], a[2] * b[1])
RNeg(a)    == <<-a[1], a[2]>>
RLt(a, b)  == a[1] * b[2] < b[1] * a[2]
RLe(a, b)  == a[1] * b[2] <= b[1] * a[2]
RMin(a, b) == IF RLe(a, b) THEN a ELSE b
RMax(a, b) == IF RLe(a, b) THEN b ELSE a
Floor(a)   == a[1] \div a[2]

RECURSIVE SumSeq(_)
SumSeq(s) == IF s = <<>> THEN 0 ELSE Head(s) + SumSeq(Tail(s))

RECURSIVE RSumSeq(_)
RSumSeq(s) == IF s = <<>> THEN FromInt(0) ELSE RAdd(Head(s), RSumSeq(Tail(s)))

----------------------------------------------------------------------------
(* Module constants *)

BOTTOM_THICKNESS == 2
BASE_HEIGHT == 5
MATE_HEIGHT == 5

----------------------------------------------------------------------------
(* GridfinityDimension *)

NoDimension == [x |-> 0, y |-> 0, z |-> 0]

x_mm(d) == RSub(FromInt(d.x * 42), Rat(1, 2))
y_mm(d) == RSub(FromInt(d.y * 42), Rat(1, 2))
z_mm(d) == FromInt(d.z * 7)

\* __post_init__: the exception it raises, "" when it returns
DimensionPostInitNoZCheck(d) ==
    IF d.x < 1 \/ d.y < 1 THEN "InvalidPropertyError" ELSE ""

DimensionPostInit(d) ==
    IF d.x < 1 \/ d.y < 1 THEN "InvalidPropertyError"
    ELSE IF d.z < 2 THEN "InvalidPropertyError"
    ELSE ""

\* decimal digits of a non-negative integer, as str() prints them
IntStr(i) == ToString(i)

DimensionStr(d) == IntStr(d.x) \o "x" \o IntStr(d.y) \o "x" \o IntStr(d.z)

----------------------------------------------------------------------------
(* Properties *)

\* A row of divisions is an int (isint, n) or a list of weights
IntRow(k)  == [isint |-> TRUE, n |-> k, weights |-> <<>>]
ListRow(w) == [isint |-> FALSE, n |-> 0, weights |-> w]

Rows == {IntRow(k) : k \in 1..MaxCols} \cup {ListRow(w) : w \in WeightLists}

DivisionsOfLen(n) == [1..n -> Rows]

\* divisions of single-bucket rows
PlainDivisions == {[i \in 1..n |-> IntRow(1)] : n \in 0..MaxY}

NoProperties ==
    [dimension |-> NoDimension, divisions |-> <<>>, wall_thickness |-> <<0, 1>>,
     draw_finger_scoop |-> FALSE, draw_label_ledge |-> FALSE,
     make_magnet_hole |-> FALSE, make_screw_hole |-> FALSE]

PropertiesPostInitNoCheck(p) == ""

PropertiesPostInit(p) ==
    IF Len(p.divisions) # p.dimension.y THEN "IncorrectNumberOfRowsError" ELSE ""

\* digits after the decimal point of rem/d, rem < d, for a terminating decimal
RECURSIVE FracDigits(_, _)
FracDigits(rem, d) ==
    IF rem = 0 THEN ""
    ELSE IntStr((rem * 10) \div d) \o FracDigits((rem * 10) % d, d)

\* str() of a non-negative float with a short decimal expansion: 0.8, 4.0
FloatStr(r) ==
    LET ip == r[1] \div r[2]
        fr == r[1] % r[2]
    IN  IntStr(ip) \o "." \o (IF fr = 0 THEN "0" ELSE FracDigits(fr, r[2]))

PropertiesStrSwapped(p) ==
    LET finger_scoop == IF p.draw_finger_scoop THEN "_with-finger_scoop" ELSE ""
        label_ledge  == IF p.draw_label_ledge THEN "_with-label-ledge" ELSE ""
        magnet_holes_ == IF p.make_screw_hole THEN "_with-magnet-holes" ELSE ""
        screw_holes_  == IF p.make_screw_hole THEN "_with-screw-holes" ELSE ""
    IN  "gridfinity_bin_" \o DimensionStr(p.dimension) \o "_"
            \o FloatStr(p.wall_thickness)
            \o finger_scoop \o label_ledge \o magnet_holes_ \o screw_holes_

PropertiesStr(p) ==
    LET finger_scoop == IF p.draw_finger_scoop THEN "_with-finger_scoop" ELSE ""
        label_ledge  == IF p.draw_label_ledge THEN "_with-label-ledge" ELSE ""
        magnet_holes_ == IF p.make_magnet_hole THEN "_with-magnet-holes" ELSE ""
        screw_holes_  == IF p.make_screw_hole THEN "_with-screw-holes" ELSE ""
    IN  "gridfinity_bin_" \o DimensionStr(p.dimension) \o "_"
            \o FloatStr(p.wall_thickness)
            \o finger_scoop \o label_ledge \o magnet_holes_ \o screw_holes_

----------------------------------------------------------------------------
(* draw_bases, draw_base, draw_magnet_holes *)

\* rect(w, h, forConstruction=True).vertices(): the corners of a w x h
\* rectangle centred on <<cx, cy>> (w, h even)
RectVertices(cx, cy, w, h) ==
    {<<cx + sx * (w \div 2), cy + sy * (h \div 2)>> : sx \in {-1, 1}, sy \in {-1, 1}}

\* rarray(42, 42, x, y): the centres of the base tiles, centred on the origin
TileCentres(d) ==
    {<<42 * i - 21 * (d.x - 1), 42 * j - 21 * (d.y - 1)>> :
        i \in 0..(d.x - 1), j \in 0..(d.y - 1)}

\* .rect(26, 26, forConstruction=True).vertices().hole(6.5, 2 + 0.5) on a base
DrawMagnetHoles(c) ==
    {[x |-> v[1], y |-> v[2], diameter |-> Rat(13, 2), depth |-> Rat(5, 2)] :
        v \in RectVertices(c[1], c[2], 26, 26)}

\* one base located on tile centre c
DrawBase(c, with_magnets) ==
    IF with_magnets THEN DrawMagnetHoles(c) ELSE {}

\* the magnet holes of all the bases
DrawBases(d, draw_magnet_holes) ==
    UNION {DrawBase(c, draw_magnet_holes) : c \in TileCentres(d)}

----------------------------------------------------------------------------
(* draw_screw_holes *)

\* faces('>Z') of the box that draw_buckets leaves: the one top face of the
\* whole box, rim and dividing walls together, however many tiles the box
\* spans.  Its centre is taken to be the centre of the footprint.
TopFaceCentres == {<<0, 0>>}

\* .faces('>Z').rect(26, 26, forConstruction=True).vertices().cboreHole(3, 6.5, 2.4)
DrawScrewHoles ==
    UNION {{[x |-> v[1], y |-> v[2], diameter |-> FromInt(3),
             cboreDiameter |-> Rat(13, 2), cboreDepth |-> Rat(12, 5)] :
                v \in RectVertices(c[1], c[2], 26, 26)} : c \in TopFaceCentres}

----------------------------------------------------------------------------
(* draw_buckets, draw_bucket_sketch *)

small_drawer_width == 15
is_drawer_too_small == FALSE

SmallDimensionsWarning(width) ==
    [category |-> "SmallDimensionsWarning",
     message |-> "Drawer width is less than or equal to " \o IntStr(width) \o "mm"]

\* the fillet radius of a bucket sketch
BucketFillet(wall_thickness) == RSub(Rat(15, 4), wall_thickness)

\* the sketch returned, and the warnings emitted on the way
DrawBucketSketch(bx_mm, by_mm, support_x_mm, support_y_mm, x_origin, y_origin, wall_thickness, small_width) ==
    [warnings |->
        IF RLt(bx_mm, FromInt(small_width))
        THEN <<SmallDimensionsWarning(small_width)>> ELSE <<>>,
     sketch |->
        [x_mm |-> bx_mm, y_mm |-> by_mm,
         fillet |-> BucketFillet(wall_thickness),
         \* the two .moved(...) translations, added up
         cx |-> RAdd(RDiv(bx_mm, FromInt(2)),
                     RAdd(RNeg(RDiv(support_x_mm, FromInt(2))), x_origin)),
         cy |-> RAdd(RNeg(RDiv(by_mm, FromInt(2))),
                     RSub(RDiv(support_y_mm, FromInt(2)), y_origin))]]

\* if isinstance(row, int): row = [1] * row
RowWeights(row) == IF row.isint THEN [i \in 1..row.n |-> 1] ELSE row.weights

BucketsXNoOuterWall(d, w, wall_thickness) ==
    LET number_of_x_walls == Len(w)
    IN  [i \in 1..Len(w) |->
            RMul(Rat(w[i], SumSeq(w)),
                 RSub(x_mm(d), RMul(FromInt(number_of_x_walls), wall_thickness)))]

\* buckets_x of a row of weights w
BucketsX(d, w, wall_thickness) ==
    LET number_of_x_walls == Len(w) + 1
    IN  [i \in 1..Len(w) |->
            RMul(Rat(w[i], SumSeq(w)),
                 RSub(x_mm(d), RMul(FromInt(number_of_x_walls), wall_thickness)))]

BucketY(d, divisions, wall_thickness) ==
    LET number_of_y_walls == Len(divisions) + 1
    IN  RDiv(RSub(y_mm(d), RMul(FromInt(number_of_y_walls), wall_thickness)),
             FromInt(Len(divisions)))

StepXOriginNoWall(x_origin, bucket_x, wall_thickness) == RAdd(x_origin, bucket_x)

\* x_origin = x_origin + bucket_x + wall_thickness
StepXOrigin(x_origin, bucket_x, wall_thickness) ==
    RAdd(RAdd(x_origin, bucket_x), wall_thickness)

\* y_origin = y_origin + bucket_y + wall_thickness
StepYOrigin(y_origin, bucket_y, wall_thickness) ==
    RAdd(RAdd(y_origin, bucket_y), wall_thickness)

\* for bucket_x in buckets_x: ... , from the i-th bucket on
RECURSIVE BucketLoop(_, _, _, _, _, _, _)
BucketLoop(bxs, i, x_origin, y_origin, bucket_y, d, wall_thickness) ==
    IF i > Len(bxs) THEN <<>>
    ELSE <<DrawBucketSketch(bxs[i], bucket_y, x_mm(d), y_mm(d), x_origin, y_origin,
                            wall_thickness, small_drawer_width)>>
         \o BucketLoop(bxs, i + 1, StepXOrigin(x_origin, bxs[i], wall_thickness),
                       y_origin, bucket_y, d, wall_thickness)

\* for row in divisions: ... , from the r-th row on; x_origin restarts at
\* wall_thickness for every row
RECURSIVE RowLoop(_, _, _, _, _)
RowLoop(divisions, r, y_origin, d, wall_thickness) ==
    IF r > Len(divisions) THEN <<>>
    ELSE LET bucket_y == BucketY(d, divisions, wall_thickness)
         IN  BucketLoop(BucketsX(d, RowWeights(divisions[r]), wall_thickness), 1,
                        wall_thickness, y_origin, bucket_y, d, wall_thickness)
             \o RowLoop(divisions, r + 1,
                        StepYOrigin(y_origin, bucket_y, wall_thickness),
                        d, wall_thickness)

RECURSIVE Flatten(_)
Flatten(ss) == IF ss = <<>> THEN <<>> ELSE Head(ss) \o Flatten(Tail(ss))

\* what draw_buckets does: the sketches placed and the warnings emitted
DrawBuckets(d, divisions, wall_thickness) ==
    LET calls == RowLoop(divisions, 1, wall_thickness, d, wall_thickness)
    IN  [sketches |-> [k \in 1..Len(calls) |-> calls[k].sketch],
         warnings |->
            Flatten([k \in 1..Len(calls) |-> calls[k].warnings])
            \o (IF is_drawer_too_small
                THEN <<SmallDimensionsWarning(small_drawer_width)>> ELSE <<>>)]

----------------------------------------------------------------------------
(* draw_finger_scoops *)

\* bucket_length = (dimension.y_mm - (dimension.y + 1)*0.8) / dimension.y
ScoopBucketLength(d) ==
    RDiv(RSub(y_mm(d), RMul(FromInt(d.y + 1), Rat(4, 5))), FromInt(d.y))

ScoopRadius(d) ==
    RMin(RMul(z_mm(d), Rat(3, 10)), RMul(ScoopBucketLength(d), Rat(9, 10)))

\* the sketch of row i (from 0): its radius and the two translations added up
FingerScoop(d, i) ==
    LET bucket_length == ScoopBucketLength(d)
        scoop_radius  == ScoopRadius(d)
        first == RAdd(RSub(RSub(RDiv(scoop_radius, FromInt(2)),
                                RMul(RMul(Rat(1, 2), bucket_length), FromInt(d.y))),
                           FromInt(d.y \div 2)),
                      IF d.y % 2 = 0 THEN Rat(1, 2) ELSE FromInt(0))
        second == RAdd(RMul(FromInt(i), RAdd(bucket_length, FromInt(1))),
                       IF i = 0 THEN Rat(8, 5) ELSE FromInt(0))
    IN  [radius |-> scoop_radius,
         x |-> RAdd(first, second),
         y |-> RSub(RDiv(scoop_radius, FromInt(2)),
                    RDiv(RSub(z_mm(d), FromInt(BOTTOM_THICKNESS)), FromInt(2)))]

DrawFingerScoops(d) == [k \in 1..d.y |-> FingerScoop(d, k - 1)]

----------------------------------------------------------------------------
(* draw_label_ledge *)

ledge_length == Rat(51, 4)          \* 12 + 0.75
back_ledge_offset == Rat(29, 10)    \* 2.9

LedgeBucketLength(d, wall_thickness) ==
    RDiv(RSub(y_mm(d), RMul(FromInt(d.y + 1), wall_thickness)), FromInt(d.y))

\* the distance between the sketches of consecutive rows: bucket_length + 1
LedgeRowStep(d, wall_thickness) ==
    RAdd(LedgeBucketLength(d, wall_thickness), FromInt(1))

\* the sketch of row i (from 0)
LabelLedge(d, wall_thickness, i) ==
    LET max_ledge_height ==
            RSub(RSub(RSub(z_mm(d), FromInt(5)), FromInt(5)), wall_thickness)
        last_offset == IF i = d.y - 1 THEN back_ledge_offset ELSE FromInt(0)
        ledge_height ==
            IF i = d.y - 1 THEN RMin(max_ledge_height, RAdd(ledge_length, last_offset))
            ELSE RMin(max_ledge_height, ledge_length)
        first == RSub(RNeg(Rat(1, 2)),
                      RMul(RSub(RMul(Rat(1, 2), FromInt(d.y)), FromInt(1)),
                           LedgeRowStep(d, wall_thickness)))
        second == RSub(RMul(FromInt(i), LedgeRowStep(d, wall_thickness)), last_offset)
    IN  [last_offset |-> last_offset,
         ledge_height |-> ledge_height,
         diagonal |-> RLt(ledge_height, ledge_length),
         x |-> RAdd(first, second),
         y |-> RDiv(RSub(z_mm(d), wall_thickness), FromInt(2))]

DrawLabelLedge(d, wall_thickness) ==
    [k \in 1..d.y |-> LabelLedge(d, wall_thickness, k - 1)]

----------------------------------------------------------------------------
(* The program *)

Init ==
    /\ pc = "start"
    /\ dim_args = NoDimension
    /\ dimension = NoDimension
    /\ prop_args = NoProperties
    /\ prop = NoProperties
    /\ error = ""
    /\ name = ""
    /\ ops = <<>>
    /\ sketches = <<>>
    /\ warnings = <<>>
    /\ magnet_holes = {}
    /\ screw_holes = {}
    /\ scoops = <<>>
    /\ ledges = <<>>

geometry == <<ops, sketches, warnings, magnet_holes, screw_holes, scoops, ledges>>

\* GridfinityDimension(x, y, z)
NewDimension ==
    /\ pc = "start"
    /\ \E x \in 0..MaxX, y \in 0..MaxY, z \in ZUnits :
        LET d == [x |-> x, y |-> y, z |-> z]
            e == DimensionPostInit(d)
        IN  /\ dim_args' = d
            /\ error' = e
            /\ IF e = "" THEN pc' = "dimension" /\ dimension' = d
                         ELSE pc' = "raised" /\ UNCHANGED dimension
    /\ UNCHANGED <<prop_args, prop, name, geometry>>

\* Properties(dimension, divisions, wall_thickness, flags).  The arguments
\* tried: every flag combination over the plain divisions, and the flags all
\* set or all clear over every other divisions.
NewProperties ==
    /\ pc = "dimension"
    /\ \E n \in 0..MaxY :
       \E divisions \in DivisionsOfLen(n), wt \in WallThicknesses,
          fs \in BOOLEAN, ll \in BOOLEAN, mh \in BOOLEAN, sh \in BOOLEAN :
        /\ divisions \in PlainDivisions \/ (fs = ll /\ ll = mh /\ mh = sh)
        /\ LET p == [dimension |-> dimension, divisions |-> divisions,
                     wall_thickness |-> wt,
                     draw_finger_scoop |-> fs, draw_label_ledge |-> ll,
                     make_magnet_hole |-> mh, make_screw_hole |-> sh]
               e == PropertiesPostInit(p)
           IN  /\ prop_args' = p
               /\ error' = e
               /\ IF e = "" THEN pc' = "properties" /\ prop' = p
                            ELSE pc' = "raised" /\ UNCHANGED prop
    /\ UNCHANGED <<dim_args, dimension, name, geometry>>

\* str(prop), as the caller that only names the bin does
Str ==
    /\ pc = "properties"
    /\ pc' = "str"
    /\ name' = PropertiesStr(prop)
    /\ UNCHANGED <<dim_args, dimension, prop_args, prop, error, geometry>>

\* make_gridfinity_box: wp.drawBases(prop.dimension, prop.make_magnet_hole)
StepDrawBases ==
    /\ pc = "properties"
    /\ pc' = "drawBuckets"
    /\ ops' = Append(ops, "drawBases")
    /\ magnet_holes' = DrawBases(prop.dimension, prop.make_magnet_hole)
    /\ UNCHANGED <<dim_args, dimension, prop_args, prop, error, name, sketches,
                   warnings, screw_holes, scoops, ledges>>

\* .drawBuckets(prop.dimension, prop.divisions, prop.wall_thickness)
StepDrawBuckets ==
    /\ pc = "drawBuckets"
    /\ pc' = "screw"
    /\ ops' = Append(ops, "drawBuckets")
    /\ LET r == DrawBuckets(prop.dimension, prop.divisions, prop.wall_thickness)
       IN  /\ sketches' = r.sketches
           /\ warnings' = warnings \o r.warnings
    /\ UNCHANGED <<dim_args, dimension, prop_args, prop, error, name,
                   magnet_holes, screw_holes, scoops, ledges>>

StepScrewHolesWrongFlag ==
    /\ pc = "screw"
    /\ pc' = "scoop"
    /\ IF prop.make_magnet_hole
       THEN /\ ops' = Append(ops, "drawScrewHoles")
            /\ screw_holes' = DrawScrewHoles
       ELSE UNCHANGED <<ops, screw_holes>>
    /\ UNCHANGED <<dim_args, dimension, prop_args, prop, error, name, sketches,
                   warnings, magnet_holes, scoops, ledges>>

\* if prop.make_screw_hole: wp = wp.drawScrewHoles()
StepScrewHoles ==
    /\ pc = "screw"
    /\ pc' = "scoop"
    /\ IF prop.make_screw_hole
       THEN /\ ops' = Append(ops, "drawScrewHoles")
            /\ screw_holes' = DrawScrewHoles
       ELSE UNCHANGED <<ops, screw_holes>>
    /\ UNCHANGED <<dim_args, dimension, prop_args, prop, error, name, sketches,
                   warnings, magnet_holes, scoops, ledges>>

\* if prop.draw_finger_scoop: wp = wp.drawFingerScoops(prop.dimension)
StepFingerScoops ==
    /\ pc = "scoop"
    /\ pc' = "ledge"
    /\ IF prop.draw_finger_scoop
       THEN /\ ops' = Append(ops, "drawFingerScoops")
            /\ scoops' = DrawFingerScoops(prop.dimension)
       ELSE UNCHANGED <<ops, scoops>>
    /\ UNCHANGED <<dim_args, dimension, prop_args, prop, error, name, sketches,
                   warnings, magnet_holes, screw_holes, ledges>>

\* if prop.draw_label_ledge: wp = wp.drawLabelLedge(prop.dimension, prop.wall_thickness)
StepLabelLedge ==
    /\ pc = "ledge"
    /\ pc' = "mate"
    /\ IF prop.draw_label_ledge
       THEN /\ ops' = Append(ops, "drawLabelLedge")
            /\ ledges' = DrawLabelLedge(prop.dimension, prop.wall_thickness)
       ELSE UNCHANGED <<ops, ledges>>
    /\ UNCHANGED <<dim_args, dimension, prop_args, prop, error, name, sketches,
                   warnings, magnet_holes, screw_holes, scoops>>

\* wp = wp.drawMate(prop.dimension); return wp
StepDrawMate ==
    /\ pc = "mate"
    /\ pc' = "done"
    /\ ops' = Append(ops, "drawMate")
    /\ UNCHANGED <<dim_args, dimension, prop_args, prop, error, name, sketches,
                   warnings, magnet_holes, screw_holes, scoops, ledges>>

Next ==
    \/ NewDimension
    \/ NewProperties
    \/ Str
    \/ StepDrawBases
    \/ StepDrawBuckets
    \/ StepScrewHoles
    \/ StepFingerScoops
    \/ StepLabelLedge
    \/ StepDrawMate

Spec == Init /\ [][Next]_vars

----------------------------------------------------------------------------
(* Vocabulary of the properties *)

\* draw_buckets has returned
Laid == pc \in {"screw", "scoop", "ledge", "mate", "done"}

NumCols(r) == Len(RowWeights(prop.divisions[r]))

\* number of buckets in the rows before row r
RECURSIVE BucketsBefore(_)
BucketsBefore(r) == IF r = 1 THEN 0 ELSE BucketsBefore(r - 1) + NumCols(r - 1)

\* the k-th bucket of row r, in the order of emission
BucketAt(r, k) == sketches[BucketsBefore(r) + k]

FootprintX == <<84 * prop.dimension.x - 1, 2>>
FootprintY == <<84 * prop.dimension.y - 1, 2>>

\* edges of a bucket, measured from the corner of the footprint the origins
\* are measured from
Left(s)   == RAdd(RSub(s.cx, RDiv(s.x_mm, FromInt(2))), RDiv(FootprintX, FromInt(2)))
Right(s)  == RAdd(Left(s), s.x_mm)
Top(s)    == RSub(RSub(RDiv(FootprintY, FromInt(2)), s.cy), RDiv(s.y_mm, FromInt(2)))
Bottom(s) == RAdd(Top(s), s.y_mm)

\* (y_mm - (numRows+1)*wall_thickness)/numRows
RowHeight ==
    LET numRows == Len(prop.divisions)
    IN  RDiv(RSub(FootprintY, RMul(FromInt(numRows + 1), prop.wall_thickness)),
             FromInt(numRows))

----------------------------------------------------------------------------
(* C1 *)

\* C1: in every row of a laid-out bin, the widths of the row's buckets plus
\* (numCols+1) * wall_thickness add up to x_mm = x*42 - 0.5.
C1_RowWidthsFillFootprint ==
    Laid =>
        /\ Len(sketches) = BucketsBefore(Len(prop.divisions) + 1)
        /\ \A r \in 1..Len(prop.divisions) :
            RAdd(RSumSeq([k \in 1..NumCols(r) |-> BucketAt(r, k).x_mm]),
                 RMul(FromInt(NumCols(r) + 1), prop.wall_thickness))
              = FootprintX

\* the row [2, 1] on a one-unit-wide bin with 0.8 mm walls: two buckets in
\* ratio 2:1 whose widths plus 3 * 0.8 make 41.5
C1_Witness ==
    /\ Laid
    /\ prop.dimension.x = 1
    /\ prop.wall_thickness = <<4, 5>>
    /\ prop.divisions[1] = ListRow(<<2, 1>>)
    /\ sketches[1].x_mm = RMul(FromInt(2), sketches[2].x_mm)
    /\ RAdd(RAdd(sketches[1].x_mm, sketches[2].x_mm), <<12, 5>>) = <<83, 2>>

----------------------------------------------------------------------------
(* C2 *)

ValidUnits(d) == d.x >= 1 /\ d.y >= 1 /\ d.z >= 2

\* C2: GridfinityDimension(x, y, z) raises the invalid-dimension error exactly
\* when x < 1 or y < 1 or z < 2 and otherwise yields the dimension; no
\* dimension with x < 1, y < 1 or z < 2 reaches the later steps.
C2_InvalidDimensionRejected ==
    /\ pc # "start" =>
          IF ValidUnits(dim_args)
          THEN dimension = dim_args /\ error # "InvalidPropertyError"
          ELSE /\ pc = "raised"
               /\ error = "InvalidPropertyError"
               /\ dimension = NoDimension
    /\ dimension # NoDimension => ValidUnits(dimension)
    /\ prop # NoProperties => ValidUnits(prop.dimension)
    /\ ops # <<>> => ValidUnits(prop.dimension)

\* GridfinityDimension(1, 1, 1) has raised
C2_Witness ==
    /\ dim_args = [x |-> 1, y |-> 1, z |-> 1]
    /\ pc = "raised"
    /\ error = "InvalidPropertyError"

----------------------------------------------------------------------------
(* C3 *)

NoGeometry ==
    /\ ops = <<>>
    /\ sketches = <<>>
    /\ magnet_holes = {}
    /\ screw_holes = {}
    /\ scoops = <<>>
    /\ ledges = <<>>

\* C3: Properties(...) raises the row-count error exactly when
\* len(divisions) # dimension.y; after it no geometry step is ever performed,
\* and every geometry step acts on divisions whose length is dimension.y.
C3_RowCountCheckedFirst ==
    /\ prop_args # NoProperties =>
          IF Len(prop_args.divisions) # prop_args.dimension.y
          THEN /\ error = "IncorrectNumberOfRowsError"
               /\ pc = "raised"
               /\ prop = NoProperties
               /\ NoGeometry
          ELSE error = "" /\ prop = prop_args
    /\ pc = "raised" => NoGeometry
    /\ ~NoGeometry => Len(prop.divisions) = prop.dimension.y

\* Properties on a 2-unit-long dimension with one row has raised
C3_Witness ==
    /\ prop_args.dimension.y = 2
    /\ Len(prop_args.divisions) = 1
    /\ error = "IncorrectNumberOfRowsError"

----------------------------------------------------------------------------
(* C4 *)

\* the steps a finished run performs, from the flags
StepsFor(p) ==
    <<"drawBases", "drawBuckets">>
    \o (IF p.make_screw_hole THEN <<"drawScrewHoles">> ELSE <<>>)
    \o (IF p.draw_finger_scoop THEN <<"drawFingerScoops">> ELSE <<>>)
    \o (IF p.draw_label_ledge THEN <<"drawLabelLedge">> ELSE <<>>)
    \o <<"drawMate">>

IsPrefix(s, t) == Len(s) <= Len(t) /\ s = SubSeq(t, 1, Len(s))

Count(s, e) == Cardinality({i \in 1..Len(s) : s[i] = e})

\* C4: the steps of make_gridfinity_box happen in the order bases, buckets,
\* screw holes, finger scoops, label ledges, lip; bases, buckets and lip
\* happen exactly once in a finished run, the lip last; each optional step
\* happens iff its flag is set.
C4_FixedStepOrder ==
    /\ prop # NoProperties => IsPrefix(ops, StepsFor(prop))
    /\ pc = "done" =>
        /\ ops = StepsFor(prop)
        /\ Count(ops, "drawBases") = 1
        /\ Count(ops, "drawBuckets") = 1
        /\ Count(ops, "drawMate") = 1
        /\ ops[Len(ops)] = "drawMate"
        /\ (Count(ops, "drawScrewHoles") = 1) = prop.make_screw_hole
        /\ (Count(ops, "drawFingerScoops") = 1) = prop.draw_finger_scoop
        /\ (Count(ops, "drawLabelLedge") = 1) = prop.draw_label_ledge
        /\ Count(ops, "drawScrewHoles") <= 1
        /\ Count(ops, "drawFingerScoops") <= 1
        /\ Count(ops, "drawLabelLedge") <= 1

\* a finished run with finger scoops, label ledges and screw holes, without
\* magnet holes
C4_Witness ==
    /\ pc = "done"
    /\ prop.draw_finger_scoop /\ prop.draw_label_ledge
    /\ ~prop.make_magnet_hole /\ prop.make_screw_hole
    /\ ops = <<"drawBases", "drawBuckets", "drawScrewHoles", "drawFingerScoops",
               "drawLabelLedge", "drawMate">>

----------------------------------------------------------------------------
(* C5 *)

\* C5: laying out emits one small-dimensions advisory for every bucket whose
\* width is at most 15 mm (15 mm included), none for a wider bucket, and
\* still produces every bucket of every row.
C5_AdvisoryUpToFifteen ==
    Laid =>
        /\ Len(sketches) = BucketsBefore(Len(prop.divisions) + 1)
        /\ Len(warnings)
             = Cardinality({k \in 1..Len(sketches) : RLe(sketches[k].x_mm, <<15, 1>>)})
        /\ \A k \in 1..Len(warnings) : warnings[k].category = "SmallDimensionsWarning"

----------------------------------------------------------------------------
(* C6 *)

\* C6: the corner radius of every bucket is max(0, 3.75 - wall_thickness):
\* 3.75 - wall_thickness up to 3.75 mm walls, and 0, never negative, above.
C6_RadiusFlooredAtZero ==
    Laid =>
        \A k \in 1..Len(sketches) :
            /\ RLe(<<0, 1>>, sketches[k].fillet)
            /\ sketches[k].fillet
                 = (IF RLe(prop.wall_thickness, <<15, 4>>)
                    THEN RSub(<<15, 4>>, prop.wall_thickness) ELSE <<0, 1>>)

----------------------------------------------------------------------------
(* C7 *)

\* C7: in each row the first bucket starts at wall_thickness, each next one
\* wall_thickness after the previous one's right edge, and the last one ends
\* wall_thickness before x_mm; every bucket has the row height
\* (y_mm - (numRows+1)*wall_thickness)/numRows; the first row starts at
\* wall_thickness, each next row a row height plus wall_thickness later, and
\* the last row ends wall_thickness before y_mm; buckets come row by row.
C7_BucketsTileFootprint ==
    Laid =>
        LET wt == prop.wall_thickness
            numRows == Len(prop.divisions)
        IN  /\ Len(sketches) = BucketsBefore(numRows + 1)
            /\ \A r \in 1..numRows :
                /\ Left(BucketAt(r, 1)) = wt
                /\ \A k \in 1..(NumCols(r) - 1) :
                        Left(BucketAt(r, k + 1)) = RAdd(Right(BucketAt(r, k)), wt)
                /\ Right(BucketAt(r, NumCols(r))) = RSub(FootprintX, wt)
                /\ \A k \in 1..NumCols(r) :
                    /\ BucketAt(r, k).y_mm = RowHeight
                    /\ Top(BucketAt(r, k))
                         = RAdd(wt, RMul(FromInt(r - 1), RAdd(RowHeight, wt)))
            /\ \A k \in 1..NumCols(numRows) :
                    Bottom(BucketAt(numRows, k)) = RSub(FootprintY, wt)

\* a laid-out bin of two rows whose second row has two buckets of different
\* widths
C7_Witness ==
    /\ Laid
    /\ Len(prop.divisions) = 2
    /\ NumCols(1) = 1 /\ NumCols(2) = 2
    /\ Len(sketches) = 3
    /\ sketches[2].x_mm # sketches[3].x_mm
    /\ RLt(Top(sketches[1]), Top(sketches[2]))
    /\ RLt(Right(sketches[2]), Left(sketches[3]))

----------------------------------------------------------------------------
(* C8 *)

\* the corners of the 26 mm square centred on tile (i, j) of the grid
TileCorners(i, j) ==
    {<<42 * i - 21 * (prop.dimension.x - 1) + sx * 13,
       42 * j - 21 * (prop.dimension.y - 1) + sy * 13>> : sx \in {-1, 1}, sy \in {-1, 1}}

AllTileCorners ==
    UNION {TileCorners(i, j) : i \in 0..(prop.dimension.x - 1),
                               j \in 0..(prop.dimension.y - 1)}

HoleCentres(holes) == {<<h.x, h.y>> : h \in holes}

\* C8: a finished bin of x by y tiles has, with make_magnet_hole, 4*x*y
\* magnet holes and, with make_screw_hole, 4*x*y screw counterbores (shaft
\* 3 mm, head 6.5 mm), in both cases on the corners of the 26 mm square
\* centred on each tile.
C8_HolesOnEveryTile ==
    pc = "done" =>
        /\ prop.make_magnet_hole =>
            /\ Cardinality(magnet_holes) = 4 * prop.dimension.x * prop.dimension.y
            /\ HoleCentres(magnet_holes) = AllTileCorners
        /\ prop.make_screw_hole =>
            /\ Cardinality(screw_holes) = 4 * prop.dimension.x * prop.dimension.y
            /\ HoleCentres(screw_holes) = AllTileCorners
            /\ \A h \in screw_holes :
                    h.diameter = <<3, 1>> /\ h.cboreDiameter = <<13, 2>>

----------------------------------------------------------------------------
(* C9 *)

\* the text of the wall thicknesses tried
WallThicknessText(wt) ==
    CASE wt = <<1, 2>> -> "0.5"
      [] wt = <<4, 5>> -> "0.8"
      [] wt = <<4, 1>> -> "4.0"

Digit(i) ==
    CASE i = 0 -> "0" [] i = 1 -> "1" [] i = 2 -> "2" [] i = 3 -> "3" [] i = 4 -> "4"
      [] i = 5 -> "5" [] i = 6 -> "6" [] i = 7 -> "7" [] i = 8 -> "8" [] i = 9 -> "9"

\* a number below 100 in decimal
Decimal(i) == IF i < 10 THEN Digit(i) ELSE Digit(i \div 10) \o Digit(i % 10)

WithFlags(p, fs, ll, mh, sh) ==
    [p EXCEPT !.draw_finger_scoop = fs, !.draw_label_ledge = ll,
              !.make_magnet_hole = mh, !.make_screw_hole = sh]

\* C9: the name is gridfinity_bin_XxYxZ_<wall_thickness> followed by one
\* token per enabled flag in the order finger-scoop, label-ledge,
\* magnet-holes, screw-holes; it does not depend on divisions; Properties
\* that differ in a flag have different names.
C9_NameEncodesFlags ==
    pc = "str" =>
        /\ name = "gridfinity_bin_"
                \o Decimal(prop.dimension.x) \o "x" \o Decimal(prop.dimension.y)
                \o "x" \o Decimal(prop.dimension.z)
                \o "_" \o WallThicknessText(prop.wall_thickness)
                \o (IF prop.draw_finger_scoop THEN "_with-finger_scoop" ELSE "")
                \o (IF prop.draw_label_ledge THEN "_with-label-ledge" ELSE "")
                \o (IF prop.make_magnet_hole THEN "_with-magnet-holes" ELSE "")
                \o (IF prop.make_screw_hole THEN "_with-screw-holes" ELSE "")
        /\ \A row \in Rows :
                PropertiesStr([prop EXCEPT !.divisions[1] = row]) = name
        /\ \A fs \in BOOLEAN, ll \in BOOLEAN, mh \in BOOLEAN, sh \in BOOLEAN :
                WithFlags(prop, fs, ll, mh, sh) # prop
                    => PropertiesStr(WithFlags(prop, fs, ll, mh, sh)) # name

\* the name of a 2x2x2 bin with 0.8 mm walls, finger scoops, label ledges and
\* screw holes
C9_Witness ==
    /\ pc = "str"
    /\ name = "gridfinity_bin_2x2x2_0.8_with-finger_scoop_with-label-ledge_with-screw-holes"

----------------------------------------------------------------------------
(* C10 *)

\* where the ledge of a row sits, the back offset of the last row set aside
LedgePosition(l) == RAdd(l.x, l.last_offset)

\* C10: the ledges of consecutive rows are a row step apart, the row step
\* of the layout: (y_mm - (numRows+1)*wall_thickness)/numRows + wall_thickness.
C10_LedgesFollowRows ==
    (pc \in {"mate", "done"} /\ prop.draw_label_ledge) =>
        /\ Len(ledges) = Len(prop.divisions)
        /\ \A i \in 1..(Len(ledges) - 1) :
                RSub(LedgePosition(ledges[i + 1]), LedgePosition(ledges[i]))
                  = RAdd(RowHeight, prop.wall_thickness)

----------------------------------------------------------------------------
(* C11 *)

\* C11: the radius of every finger scoop is min(0.3 * z_mm, 0.9 * row_depth),
\* row_depth being the row height of the layout for the same dimension and
\* the same wall_thickness: (y_mm - (numRows+1)*wall_thickness)/numRows.
C11_ScoopRadiusFollowsWalls ==
    (pc \in {"ledge", "mate", "done"} /\ prop.draw_finger_scoop) =>
        /\ Len(scoops) = Len(prop.divisions)
        /\ \A k \in 1..Len(scoops) :
                scoops[k].radius
                  = RMin(RMul(<<7 * prop.dimension.z, 1>>, <<3, 10>>),
                         RMul(RowHeight, <<9, 10>>))

====
